---- MODULE Spec2Model ----
(***************************************************************************)
(* A model of bloaty.cc: the Program symbol table (AddObject, the two      *)
(* RangeMaps, the stripped-name table), the vtable scanner, the            *)
(* Lengauer-Tarjan DominatorCalculator, CalculateWeights and the           *)
(* reachability pass GC behind PrintGarbage.                               *)
(*                                                                         *)
(* An Object* is modelled by the object's name: objects_ is keyed by name  *)
(* and std::unordered_map never moves its elements.  The order in which a  *)
(* std::set<Object*> is iterated (pointer order) is the variable ptrOrder. *)
(* Files (Object::file, GetFile, GCFiles) are left out: no parser that     *)
(* sets Object::file is part of bloaty.cc, so file is always null here.    *)
(***************************************************************************)
EXTENDS Integers, Sequences, FiniteSets, TLC

VARIABLES
  objects,                \* Program::objects_ : name -> Object
  next_id_,               \* Program::next_id_
  total_size_,            \* Program::total_size_
  objects_by_addr_,       \* Program::objects_by_addr_ : RangeMap<Object*>
  file_offsets_,          \* Program::file_offsets_ : RangeMap<uintptr_t>
  stripped_pretty_names_, \* Program::stripped_pretty_names_
  entry_,                 \* Program::entry_
  ptrOrder,               \* the names in increasing order of their Object's address
  name_path,              \* the global name_path (argv[2]), or NoName
  pc,                     \* where main() is: "parse", "scanned", "report", "done",
                          \* or how it ended early: "exited", "crashed"
  tryAddRefCalls,         \* ParseVTables: name -> the words handed to TryAddRef
  garbage,                \* PrintGarbage: its local set `garbage` when it returns
  garbageRun,             \* PrintGarbage: "no", "fatal", "traversed", "crashed"
  dominators,             \* PrintSymbolsByTransitiveWeight: its local map `dominators`
  weightRun,              \* PrintSymbolsByTransitiveWeight: "no", "fatal", "traversed", "crashed"
  max_weight_,            \* Program::max_weight_
  pushed,                 \* GC: the objects pushed on `stack`, in the order of the pushes
  weighed,                \* CalculateWeights: the objects given their weight, in that order
  numbered                \* Initialize: the objects Vertex(1), ..., Vertex(n_) stand for

vars == <<objects, next_id_, total_size_, objects_by_addr_, file_offsets_,
          stripped_pretty_names_, entry_, ptrOrder, name_path, pc,
          tryAddRefCalls, garbage, garbageRun, dominators, weightRun, max_weight_,
          pushed, weighed, numbered>>

progVars == <<objects, next_id_, total_size_, objects_by_addr_, stripped_pretty_names_>>
scanVars == <<tryAddRefCalls>>
reportVars == <<garbage, garbageRun, dominators, weightRun, max_weight_,
                pushed, weighed, numbered>>

\* ------------------------------------------------------------------ bounds

MaxAdds == 3        \* AddObject calls in Spec
MaxAddrAdds == 2    \* AddObject calls in SpecAddr
MaxScanAdds == 2    \* AddObject calls in SpecVTables
MaxMappings == 1    \* AddFileMapping calls in SpecVTables
MaxRefs == 4        \* AddRef calls in SpecGraph

\* ------------------------------------------------------------------ values

NULL == "NULL"                 \* the null pointer
WILD == "WILD"                 \* a non-null pointer to no Object
NoName == "NoName"             \* name_path == NULL
EmptyMap == <<>>               \* an empty std::map / std::unordered_map

Max(a, b) == IF a >= b THEN a ELSE b

\* A std::set<uint32_t> in the order a range-for goes through it.
RECURSIVE Ascending(_)
Ascending(S) ==
  IF S = {} THEN <<>>
  ELSE LET m == CHOOSE x \in S : \A y \in S : x <= y
       IN <<m>> \o Ascending(S \ {m})

\* ------------------------------------------------------------------ names

\* What c++filt answers, as a string of characters.  A name it does not
\* recognise comes back unchanged.
Chars(s) ==
  CASE s = "A" -> <<"A">>
    [] s = "B" -> <<"B">>
    [] s = "C" -> <<"C">>
    [] s = "D" -> <<"D">>
    [] s = "foo" -> <<"f", "o", "o">>
    [] OTHER -> <<"?">>

Demangle(symbol) ==
  CASE symbol = "_Z3fooi" -> <<"f", "o", "o", "(", "i", "n", "t", ")">>
    [] symbol = "_Z3food" -> <<"f", "o", "o", "(", "d", "o", "u", "b", "l", "e", ")">>
    [] symbol = "_Z3fooc" -> <<"f", "o", "o", "(", "c", "h", "a", "r", ")">>
    [] OTHER -> Chars(symbol)

\* std::string::find_first_of('('): the first index holding '(', 0 for npos.
FindFirstOf(name, ch) ==
  IF \E i \in 1..Len(name) : name[i] = ch
  THEN CHOOSE i \in 1..Len(name) : name[i] = ch /\ \A j \in 1..(i - 1) : name[j] # ch
  ELSE 0

\* NameStripper::StripName and stripped(): the flag returned and the string
\* stripped() then refers to.
StripName(name) ==
  LET paren == FindFirstOf(name, "(")
  IN IF paren = 0
     THEN [changed |-> FALSE, stripped |-> name]
     ELSE [changed |-> TRUE, stripped |-> SubSeq(name, 1, paren - 1)]

\* ------------------------------------------------------------------ RangeMap

\* RangeMap::Add: mappings_[addr] = (val, size).
RangeMapAdd(mappings, addr, size, val) ==
  [a \in (DOMAIN mappings) \cup {addr} |->
     IF a = addr THEN [val |-> val, size |-> size] ELSE mappings[a]]

\* RangeMap::TryGet.  upper_bound(addr) is the first key > addr; it is
\* begin() when no key is <= addr; otherwise --it is the greatest key <= addr.
RangeMapTryGet(mappings, addr) ==
  LET below == {k \in DOMAIN mappings : k <= addr}
  IN IF below = {}
     THEN [found |-> FALSE, val |-> NULL]
     ELSE LET it == CHOOSE k \in below : \A j \in below : j <= k
          IN IF it + mappings[it].size < addr
             THEN [found |-> FALSE, val |-> NULL]
             ELSE [found |-> TRUE, val |-> mappings[it].val]

\* ------------------------------------------------------------------ Program

\* The Program as one record, so that AddObject can be applied to it.
ProgramOf(objs, nid, tot, byaddr, spn) ==
  [objects |-> objs, next_id_ |-> nid, total_size_ |-> tot,
   objects_by_addr_ |-> byaddr, stripped_pretty_names_ |-> spn]

\* Program::Program(): next_id_(1), total_size_(0), empty containers.
NewProgram == ProgramOf(EmptyMap, 1, 0, EmptyMap, EmptyMap)

\* Object(name): the element objects_.emplace(name, name) constructs.  The
\* fields AddObject assigns are given their values there.
NewObject(name) ==
  [id |-> 0, vmaddr |-> 0, size |-> 0, data |-> FALSE, name |-> name,
   pretty_name |-> <<>>, refs |-> {}, weight |-> 0, max_weight |-> 0]

\* Program::AddObject on the record p: the Program after the call.
AddObjectTo(p, name, vmaddr, size, data) ==
  LET old == IF name \in DOMAIN p.objects THEN p.objects[name] ELSE NewObject(name)
      demangled == Demangle(name)
      s == StripName(demangled)
      spn == p.stripped_pretty_names_
      collides == s.changed /\ s.stripped \in DOMAIN spn
      prior == IF collides THEN spn[s.stripped] ELSE NULL
      ret == [old EXCEPT !.id = p.next_id_, !.vmaddr = vmaddr, !.size = size,
                         !.data = data, !.name = name,
                         !.pretty_name = IF s.changed /\ ~collides
                                         THEN s.stripped ELSE demangled]
      objs1 == [n \in (DOMAIN p.objects) \cup {name} |->
                  IF n = name THEN ret ELSE p.objects[n]]
      objs2 == IF prior # NULL
               THEN [objs1 EXCEPT ![prior].pretty_name = Demangle(objs1[prior].name)]
               ELSE objs1
      spn2 == IF ~s.changed THEN spn
              ELSE [k \in (DOMAIN spn) \cup {s.stripped} |->
                      IF k = s.stripped THEN (IF collides THEN NULL ELSE name)
                      ELSE spn[k]]
  IN ProgramOf(objs2, p.next_id_ + 1, p.total_size_ + size,
               RangeMapAdd(p.objects_by_addr_, vmaddr, size, name), spn2)

ThisProgram ==
  ProgramOf(objects, next_id_, total_size_, objects_by_addr_, stripped_pretty_names_)

\* Program::AddObject (through ProgramDataSink::AddObject).
AddObject(name, vmaddr, size, data) ==
  /\ pc = "parse"
  /\ LET p == AddObjectTo(ThisProgram, name, vmaddr, size, data)
     IN /\ objects' = p.objects
        /\ next_id_' = p.next_id_
        /\ total_size_' = p.total_size_
        /\ objects_by_addr_' = p.objects_by_addr_
        /\ stripped_pretty_names_' = p.stripped_pretty_names_
  /\ UNCHANGED <<file_offsets_, entry_, ptrOrder, name_path, pc, scanVars, reportVars>>

\* Program::FindFunctionByName.
FindFunctionByName(name) == IF name \in DOMAIN objects THEN name ELSE NULL

\* Program::FindObjectByAddr.
FindObjectByAddr(addr) ==
  LET r == RangeMapTryGet(objects_by_addr_, addr)
  IN IF r.found THEN r.val ELSE NULL

\* ------------------------------------------------------------------ Spec: the symbol table

Names == {"_Z3fooi", "_Z3food", "_Z3fooc", "foo"}
\* (vmaddr, size, data) of the symbols a parser hands over in Spec.
Layouts == {<<256, 16, FALSE>>, <<512, 8, TRUE>>}

\* The state main() starts from, but for entry_, which Program() leaves
\* uninitialised, and name_path, which is argv[2].
InitBut ==
  /\ objects = NewProgram.objects
  /\ next_id_ = NewProgram.next_id_
  /\ total_size_ = NewProgram.total_size_
  /\ objects_by_addr_ = NewProgram.objects_by_addr_
  /\ stripped_pretty_names_ = NewProgram.stripped_pretty_names_
  /\ file_offsets_ = EmptyMap
  /\ ptrOrder = <<>>
  /\ pc = "parse"
  /\ tryAddRefCalls = EmptyMap
  /\ garbage = {}
  /\ garbageRun = "no"
  /\ dominators = EmptyMap
  /\ weightRun = "no"
  /\ max_weight_ = 0
  /\ pushed = <<>>
  /\ weighed = <<>>
  /\ numbered = <<>>

\* Program() does not initialise entry_: it holds null or anything else.
Init == InitBut /\ entry_ \in {NULL, WILD} /\ name_path = NoName

AddSymbol ==
  \E name \in Names, l \in Layouts :
    /\ next_id_ <= MaxAdds
    /\ AddObject(name, l[1], l[2], l[3])

Next == AddSymbol

Spec == Init /\ [][Next]_vars

\* ------------------------------------------------------------------ SpecAddr: the address index

AddrNames == {"A", "B", "C"}
Addrs == {256, 264, 272}
AddrSizes == {0, 8, 16}

AddRange ==
  \E name \in AddrNames, vmaddr \in Addrs, size \in AddrSizes, data \in BOOLEAN :
    /\ next_id_ <= MaxAddrAdds
    /\ AddObject(name, vmaddr, size, data)

NextAddr == AddRange

SpecAddr == Init /\ [][NextAddr]_vars

\* ------------------------------------------------------------------ the vtable scanner

PointerSize == 8   \* sizeof(uintptr_t)
FileLen == 40      \* the length of the binary file, in bytes

\* The pointer-sized word the binary holds at byte offset pos.
FileWordAt(pos) == 2 * pos + 16

\* Program::AddFileMapping.  The difference is kept as an integer: the
\* wrap-around of vmaddr - fileoff is undone by TryGetFileOffset.
AddFileMapping(vmaddr, fileoff, filesize) ==
  /\ pc = "parse"
  /\ file_offsets_' = RangeMapAdd(file_offsets_, vmaddr, filesize, vmaddr - fileoff)
  /\ UNCHANGED <<progVars, entry_, ptrOrder, name_path, pc, scanVars, reportVars>>

\* RangeMap::TryGet when its verbose branch is taken with no key <= addr and
\* mappings_ empty: `it` is end() and the fprintf reads through it.
TryGetReadsEnd(mappings, verbose) ==
  verbose /\ DOMAIN mappings = {}

\* Program::TryGetFileOffset.
TryGetFileOffset(vmaddr) ==
  LET r == RangeMapTryGet(file_offsets_, vmaddr)
  IN IF r.found THEN [found |-> TRUE, ofs |-> vmaddr - r.val]
     ELSE [found |-> FALSE, ofs |-> 0]

\* Program::TryAddRef on the objects objs: the objects after the call.
TryAddRef(objs, from, vmaddr) ==
  IF from = NULL THEN objs
  ELSE LET r == RangeMapTryGet(objects_by_addr_, vmaddr)
       IN IF r.found THEN [objs EXCEPT ![from].refs = @ \cup {r.val}] ELSE objs

\* The for loop of ParseVTables over the bytes of one object: i is the loop
\* variable, pos the position of the file.  fread fails when fewer than
\* sizeof(uintptr_t) bytes are left.
RECURSIVE ReadWords(_, _, _, _)
ReadWords(st, name, i, pos) ==
  IF ~(i < objects[name].size) THEN st
  ELSE IF pos + PointerSize > FileLen THEN [st EXCEPT !.status = "exited"]
  ELSE ReadWords([st EXCEPT !.calls[name] = Append(@, FileWordAt(pos)),
                            !.objects = TryAddRef(st.objects, name, FileWordAt(pos))],
                 name, i + PointerSize, pos + PointerSize)

\* One iteration of the loop of ParseVTables over objects_, for an object
\* that is data (the others are skipped at line 736).  endRead says how a
\* read through end() ends: "crashed", or "ok" when it reads garbage and the
\* loop goes on.
ScanObject(st, name, endRead) ==
  IF st.status # "ok" THEN st
  ELSE LET verbose == name_path # NoName /\ name = name_path
           off == TryGetFileOffset(objects[name].vmaddr)
       IN IF ~off.found
          THEN (IF TryGetReadsEnd(file_offsets_, verbose)
                THEN [st EXCEPT !.status = endRead] ELSE st)
          ELSE ReadWords(st, name, 0, off.ofs)

RECURSIVE ScanObjects(_, _, _)
ScanObjects(st, order, endRead) ==
  IF order = <<>> THEN st
  ELSE ScanObjects(ScanObject(st, Head(order), endRead), Tail(order), endRead)

\* The orders in which a loop can go through the container S.
Orders(S) ==
  {o \in [1..Cardinality(S) -> S] : \A i, j \in 1..Cardinality(S) : i # j => o[i] # o[j]}

\* The objects ParseVTables does not skip.
DataObjects == {n \in DOMAIN objects : objects[n].data}

\* The ways a read through end() can end, when there is one.
EndReads ==
  IF \E n \in DataObjects : TryGetReadsEnd(file_offsets_, n = name_path)
  THEN {"ok", "crashed"} ELSE {"ok"}

\* ParseVTables: objects_ is an unordered_map, gone through in any order.
ParseVTables ==
  /\ pc = "parse"
  /\ \E order \in Orders(DataObjects), endRead \in EndReads :
       \E st \in {ScanObjects([status |-> "ok", objects |-> objects,
                               calls |-> [n \in DOMAIN objects |-> <<>>]],
                              order, endRead)} :
          /\ objects' = st.objects
          /\ tryAddRefCalls' = st.calls
          /\ pc' = IF st.status = "ok" THEN "scanned" ELSE st.status
  /\ UNCHANGED <<next_id_, total_size_, objects_by_addr_, stripped_pretty_names_,
                 file_offsets_, entry_, ptrOrder, name_path, reportVars>>

\* ------------------------------------------------------------------ SpecVTables

ScanNames == {"A", "B"}
ScanAddrs == {32, 64}
ScanSizes == {0, 4, 8, 12, 16}
MapAddrs == {32}
MapOffsets == {0, 32}
MapSizes == {16}

InitVTables ==
  /\ InitBut
  /\ entry_ \in {NULL, WILD}
  /\ name_path \in {NoName} \cup ScanNames

AddScanSymbol ==
  \E name \in ScanNames, vmaddr \in ScanAddrs, size \in ScanSizes, data \in BOOLEAN :
    /\ next_id_ <= MaxScanAdds
    /\ AddObject(name, vmaddr, size, data)

AddSegment ==
  \E vmaddr \in MapAddrs, fileoff \in MapOffsets, filesize \in MapSizes :
    /\ Cardinality(DOMAIN file_offsets_) < MaxMappings
    /\ AddFileMapping(vmaddr, fileoff, filesize)

NextVTables == AddScanSymbol \/ AddSegment \/ ParseVTables

SpecVTables == InitVTables /\ [][NextVTables]_vars

\* ------------------------------------------------------------------ the reference graph

\* ProgramDataSink::AddRef.
AddRef(from, to) ==
  /\ pc = "parse"
  /\ objects' = [objects EXCEPT ![from].refs = @ \cup {to}]
  /\ UNCHANGED <<next_id_, total_size_, objects_by_addr_, stripped_pretty_names_,
                 file_offsets_, entry_, ptrOrder, name_path, pc, scanVars, reportVars>>

\* Program::SetEntryPoint.
SetEntryPoint(obj) ==
  /\ pc = "parse"
  /\ entry_' = obj
  /\ UNCHANGED <<progVars, file_offsets_, ptrOrder, name_path, pc, scanVars, reportVars>>

\* obj->refs, a std::set<Object*>, in the order a range-for goes through it.
RefsInOrder(obj) == SelectSeq(ptrOrder, LAMBDA t : t \in objects[obj].refs)

\* ------------------------------------------------------------------ DominatorCalculator

\* node_info_.resize(total) and ordering_.resize(total): value-initialised.
NewCalculator(total) ==
  LET Slots == 0..(total - 1)
  IN [n_ |-> 0,
      node |-> [i \in Slots |-> NULL],
      parent |-> [i \in Slots |-> 0],
      ancestor |-> [i \in Slots |-> 0],
      label |-> [i \in Slots |-> 0],
      semi |-> [i \in Slots |-> 0],
      dom |-> [i \in Slots |-> 0],
      pred |-> [i \in Slots |-> {}],
      bucket |-> [i \in Slots |-> {}],
      ordering_ |-> [i \in Slots |-> 0]]

\* Initialize, line 256: Pred(w).insert(v).
AddPred(c, w, v) == [c EXCEPT !.pred[w] = @ \cup {v}]

\* DominatorCalculator::Initialize; InitializeRefs is its loop over pv->refs.
RECURSIVE Initialize(_, _), InitializeRefs(_, _, _)
Initialize(c, pv) ==
  LET v == objects[pv].id
      n == c.n_ + 1
  IN InitializeRefs([c EXCEPT !.node[v] = pv, !.n_ = n, !.semi[v] = n,
                              !.ordering_[n] = v, !.label[v] = v, !.ancestor[v] = 0],
                    v, RefsInOrder(pv))

InitializeRefs(c, v, targets) ==
  IF targets = <<>> THEN c
  ELSE InitializeRefs(AddPred(IF c.semi[objects[Head(targets)].id] = 0
                              THEN Initialize([c EXCEPT !.parent[objects[Head(targets)].id] = v],
                                              Head(targets))
                              ELSE c,
                              objects[Head(targets)].id, v),
                      v, Tail(targets))

\* The objects behind Vertex(1), ..., Vertex(n_): node_info_[Vertex(i)].node.
VertexObjects(c) == [i \in 1..c.n_ |-> c.node[c.ordering_[i]]]

\* DominatorCalculator::Link.
Link(c, v, w) == [c EXCEPT !.ancestor[w] = v]

\* DominatorCalculator::Compress; Compressed is what follows the recursive
\* call, c being the calculator that call leaves.
Compressed(c, v) ==
  LET a == c.ancestor[v]
      lab == IF c.semi[c.label[a]] < c.semi[c.label[v]] THEN c.label[a] ELSE c.label[v]
  IN [c EXCEPT !.label[v] = lab, !.ancestor[v] = c.ancestor[a]]

RECURSIVE Compress(_, _)
Compress(c, v) ==
  IF c.ancestor[c.ancestor[v]] # 0
  THEN Compressed(Compress(c, c.ancestor[v]), v)
  ELSE c

\* DominatorCalculator::Eval: the calculator after the call and the value returned.
Labelled(c, v) == [c |-> c, u |-> c.label[v]]

Eval(c, v) ==
  IF c.ancestor[v] = 0
  THEN [c |-> c, u |-> v]
  ELSE Labelled(Compress(c, v), v)

\* CalculateDominators, lines 294-299: the loop over Pred(w); e is Eval(v).
LowerSemi(e, w) ==
  IF e.c.semi[e.u] < e.c.semi[w]
  THEN [e.c EXCEPT !.semi[w] = e.c.semi[e.u]]
  ELSE e.c

RECURSIVE SemiLoop(_, _, _)
SemiLoop(c, w, vs) ==
  IF vs = <<>> THEN c
  ELSE SemiLoop(LowerSemi(Eval(c, Head(vs)), w), w, Tail(vs))

\* CalculateDominators, lines 303-306: the loop over Bucket(Parent(w)); e is Eval(v).
SetDom(e, v, w) ==
  [e.c EXCEPT !.dom[v] = IF e.c.semi[e.u] < e.c.semi[v] THEN e.u ELSE e.c.parent[w]]

RECURSIVE BucketLoop(_, _, _)
BucketLoop(c, w, vs) ==
  IF vs = <<>> THEN c
  ELSE BucketLoop(SetDom(Eval(c, Head(vs)), Head(vs), w), w, Tail(vs))

\* CalculateDominators, lines 300-306, for the vertex w.
ToBucketAndLink(c, w) ==
  Link([c EXCEPT !.bucket[c.ordering_[c.semi[w]]] = @ \cup {w}], c.parent[w], w)

DrainBucket(c, w) == BucketLoop(c, w, Ascending(c.bucket[c.parent[w]]))

\* CalculateDominators, lines 292-306: the body of the loop for the vertex w.
VertexStep(c, w) ==
  DrainBucket(ToBucketAndLink(SemiLoop(c, w, Ascending(c.pred[w])), w), w)

\* CalculateDominators, lines 291-307: the loop from i down to 1.
RECURSIVE SemiDominators(_, _)
SemiDominators(c, i) ==
  IF ~(i > 0) THEN c
  ELSE SemiDominators(VertexStep(c, c.ordering_[i]), i - 1)

\* CalculateDominators, lines 309-314: the loop from i up to n_ - 1.
FixDom(c, w) ==
  IF c.dom[w] # c.ordering_[c.semi[w]]
  THEN [c EXCEPT !.dom[w] = c.dom[c.dom[w]]]
  ELSE c

RECURSIVE ImmediateDominators(_, _)
ImmediateDominators(c, i) ==
  IF ~(i < c.n_) THEN c
  ELSE ImmediateDominators(FixDom(c, c.ordering_[i]), i + 1)

\* The first vertex the loop at line 291 works on.
FirstVertex(c) == c.n_ - 1

\* CalculateDominators from line 291 on, c being the calculator Initialize leaves.
AfterInitialize(c, r) ==
  [ImmediateDominators(SemiDominators(c, FirstVertex(c)), 1) EXCEPT !.dom[r] = 0]

\* DominatorCalculator::CalculateDominators.
CalculateDominators(pr, total) ==
  AfterInitialize(Initialize(NewCalculator(total), pr), objects[pr].id)

\* DominatorCalculator::Calculate, lines 229-239: the map the loop over
\* node_info_ fills.
DominatorMap(c) ==
  LET Kept == {i \in DOMAIN c.node : c.node[i] # NULL /\ c.dom[i] # 0}
  IN [o \in {c.node[i] : i \in Kept} |-> c.node[c.dom[objects[o].id]]]

\* DominatorCalculator::Calculate: the map *dominators after the call.
Calculate(root, total) == DominatorMap(CalculateDominators(root, total))

\* ------------------------------------------------------------------ CalculateWeights, GC

\* CalculateWeights, lines 499-504: obj credits its dominator.
Credit(st, obj, doms) ==
  IF obj \in DOMAIN doms
  THEN [st EXCEPT !.objects[doms[obj]].weight = @ + st.objects[obj].weight]
  ELSE st

\* CalculateWeights, line 496.
RaiseMaxWeight(st, obj, target) ==
  [st EXCEPT !.objects[obj].max_weight = Max(@, st.objects[target].max_weight)]

\* Program::CalculateWeights; WeighRefs is its loop over obj->refs.  st holds
\* the objects, the set `seen` and, in weighed, the objects that got past the
\* test of `seen`, in the order they did.
\* WeighRefs as it would be with the loop over obj->refs left out.
WeighRefsWithoutTargets(st, obj, targets, doms) == st

RECURSIVE CalculateWeights(_, _, _), WeighRefs(_, _, _, _)
CalculateWeights(st, obj, doms) ==
  IF obj \in st.seen THEN st
  ELSE Credit(WeighRefs([seen |-> st.seen \cup {obj},
                         weighed |-> Append(st.weighed, obj),
                         objects |-> [st.objects EXCEPT
                                        ![obj].weight = st.objects[obj].size,
                                        ![obj].max_weight = st.objects[obj].size]],
                        obj, RefsInOrder(obj), doms),
              obj, doms)

WeighRefs(st, obj, targets, doms) ==
  IF targets = <<>> THEN st
  ELSE WeighRefs(RaiseMaxWeight(CalculateWeights(st, Head(targets), doms),
                                obj, Head(targets)),
                 obj, Tail(targets), doms)

\* Program::GC; GCRefs is its loop over obj->refs.  g holds the set *garbage
\* and, in pushed, the objects stack->push_back was called with, in order.
RECURSIVE GC(_, _), GCRefs(_, _)

\* GC as it would be with the loop over obj->refs left out.
GCWithoutChildren(obj, g) ==
  IF obj \notin g.garbage THEN g
  ELSE [garbage |-> g.garbage \ {obj}, pushed |-> Append(g.pushed, obj)]

GC(obj, g) ==
  IF obj \notin g.garbage THEN g
  ELSE GCRefs(RefsInOrder(obj),
              [garbage |-> g.garbage \ {obj}, pushed |-> Append(g.pushed, obj)])

GCRefs(children, g) ==
  IF children = <<>> THEN g
  ELSE GCRefs(Tail(children), GC(Head(children), g))

\* ------------------------------------------------------------------ the reports

\* Program::PrintGarbage.  An entry_ never set holds null, and the function
\* exits, or it holds something else: GC erases nothing and entry_->file is
\* read through it, which ends the process or reads garbage and goes on.
PrintGarbage ==
  /\ pc = "scanned"
  /\ \/ /\ entry_ = NULL
        /\ garbageRun' = "fatal"
        /\ pc' = "exited"
        /\ garbage' = DOMAIN objects
        /\ pushed' = <<>>
     \/ /\ entry_ = WILD
        /\ \E g \in {GC(entry_, [garbage |-> DOMAIN objects, pushed |-> <<>>])} :
             garbage' = g.garbage /\ pushed' = g.pushed
        /\ \/ garbageRun' = "traversed" /\ pc' = "report"
           \/ garbageRun' = "crashed" /\ pc' = "crashed"
     \/ /\ entry_ \in DOMAIN objects
        /\ \E g \in {GC(entry_, [garbage |-> DOMAIN objects, pushed |-> <<>>])} :
             garbage' = g.garbage /\ pushed' = g.pushed
        /\ garbageRun' = "traversed"
        /\ pc' = "report"
  /\ UNCHANGED <<progVars, file_offsets_, entry_, ptrOrder, name_path, scanVars,
                 dominators, weightRun, max_weight_, weighed, numbered>>

\* Program::PrintSymbolsByTransitiveWeight, up to line 518 (the rest prints).
\* A null entry_ is reported and then used all the same; Calculate reads
\* pr->id through a null or wild entry_.
PrintSymbolsByTransitiveWeight ==
  /\ pc = "report"
  /\ \/ /\ entry_ \in {NULL, WILD}
        /\ weightRun' = "crashed"
        /\ pc' = "crashed"
        /\ UNCHANGED <<objects, dominators, max_weight_, weighed, numbered>>
     \/ /\ entry_ \in DOMAIN objects
        /\ \E doms \in {Calculate(entry_, next_id_)} :
             \E st \in {CalculateWeights([seen |-> {}, weighed |-> <<>>, objects |-> objects],
                                         entry_, doms)} :
               /\ dominators' = doms
               /\ weighed' = st.weighed
               /\ numbered' = VertexObjects(Initialize(NewCalculator(next_id_), entry_))
               /\ objects' = st.objects
               /\ max_weight_' = st.objects[entry_].max_weight
        /\ weightRun' = "traversed"
        /\ pc' = "done"
  /\ UNCHANGED <<next_id_, total_size_, objects_by_addr_, stripped_pretty_names_,
                 file_offsets_, entry_, ptrOrder, name_path, scanVars,
                 garbage, garbageRun, pushed>>

\* ------------------------------------------------------------------ SpecGraph

GraphNames == <<"A", "B", "C", "D">>

\* The Program after AddObject for the first k graph names: object i lies at
\* 256 * i and is 10 * i bytes long.
RECURSIVE GraphProgram(_)
GraphProgram(k) ==
  IF k = 0 THEN NewProgram
  ELSE AddObjectTo(GraphProgram(k - 1), GraphNames[k], 256 * k, 10 * k, FALSE)

Reverse(s) == [i \in 1..Len(s) |-> s[Len(s) + 1 - i]]

InitGraph ==
  /\ objects = GraphProgram(Len(GraphNames)).objects
  /\ next_id_ = GraphProgram(Len(GraphNames)).next_id_
  /\ total_size_ = GraphProgram(Len(GraphNames)).total_size_
  /\ objects_by_addr_ = GraphProgram(Len(GraphNames)).objects_by_addr_
  /\ stripped_pretty_names_ = GraphProgram(Len(GraphNames)).stripped_pretty_names_
  /\ file_offsets_ = EmptyMap
  /\ entry_ \in {NULL, WILD}
  /\ ptrOrder \in {GraphNames, Reverse(GraphNames)}
  /\ name_path = NoName
  /\ pc = "parse"
  /\ tryAddRefCalls = EmptyMap
  /\ garbage = {}
  /\ garbageRun = "no"
  /\ dominators = EmptyMap
  /\ weightRun = "no"
  /\ max_weight_ = 0
  /\ pushed = <<>>
  /\ weighed = <<>>
  /\ numbered = <<>>

\* The number of references in the graph.
RefCount(objs) ==
  Cardinality({e \in (DOMAIN objs) \X (DOMAIN objs) : e[2] \in objs[e[1]].refs})

AddReference ==
  \E from \in DOMAIN objects, to \in DOMAIN objects :
    /\ RefCount(objects) < MaxRefs
    /\ to \notin objects[from].refs
    /\ AddRef(from, to)

ChooseEntryPoint ==
  \E obj \in DOMAIN objects :
    /\ entry_ \in {NULL, WILD}
    /\ SetEntryPoint(obj)

NextGraph ==
  \/ AddReference
  \/ ChooseEntryPoint
  \/ ParseVTables
  \/ PrintGarbage
  \/ PrintSymbolsByTransitiveWeight

SpecGraph == InitGraph /\ [][NextGraph]_vars

\* ------------------------------------------------------------------ claims on the symbol table

\* C5: add_object is idempotent on name: a call whose name was already added
\* leaves the record's id, vmaddr, size and is_data as the first call set
\* them, and leaves the total-size counter as it was.  (Every step of Spec
\* and SpecAddr is an AddObject call; the call re-adds a name exactly when
\* the set of names stays the same.)
C5_AddObjectIdempotent ==
  [][ /\ \A n \in DOMAIN objects :
           /\ objects'[n].id = objects[n].id
           /\ objects'[n].vmaddr = objects[n].vmaddr
           /\ objects'[n].size = objects[n].size
           /\ objects'[n].data = objects[n].data
      /\ (DOMAIN objects' = DOMAIN objects => total_size_' = total_size_) ]_vars

\* No name was added twice: every AddObject call made a new object.
NoNameAddedTwice == next_id_ - 1 = Cardinality(DOMAIN objects)

\* The ranges [vmaddr, vmaddr + size) of the objects are pairwise disjoint.
RangesDisjoint ==
  \A a, b \in DOMAIN objects :
    a # b => \/ objects[a].vmaddr + objects[a].size <= objects[b].vmaddr
             \/ objects[b].vmaddr + objects[b].size <= objects[a].vmaddr

\* C6: after add_object calls with distinct names and pairwise disjoint
\* ranges, every symbol s of size > 0 is found at its first and at its last
\* address, and is not found at s.vmaddr + s.size (the interval is half-open).
C6_AddressIndexHalfOpen ==
  (NoNameAddedTwice /\ RangesDisjoint) =>
    \A n \in DOMAIN objects :
      objects[n].size > 0 =>
        /\ FindObjectByAddr(objects[n].vmaddr) = n
        /\ FindObjectByAddr(objects[n].vmaddr + objects[n].size - 1) = n
        /\ FindObjectByAddr(objects[n].vmaddr + objects[n].size) # n

\* The stripped form of the object n: what the stripper makes of its
\* demangled name.
StrippedForm(n) == StripName(Demangle(objects[n].name)).stripped

\* C7: after any sequence of add_object calls, a symbol whose stripped form
\* is shared with another symbol has its fully demangled name as pretty_name,
\* and a symbol that alone has its stripped form has that form as pretty_name.
C7_PrettyNameRule ==
  \A n \in DOMAIN objects :
    LET holders == {m \in DOMAIN objects : StrippedForm(m) = StrippedForm(n)}
    IN IF Cardinality(holders) >= 2
       THEN objects[n].pretty_name = Demangle(objects[n].name)
       ELSE objects[n].pretty_name = StrippedForm(n)

\* ------------------------------------------------------------------ claims on the vtable scanner

\* C10: when ParseVTables has returned, it has called try_add_ref
\* floor(size / pointer_size) times for every data symbol with a file offset,
\* and never for a symbol that is not data or has no file offset.
C10_ScanReadsFloorWords ==
  pc = "scanned" =>
    \A n \in DOMAIN objects :
      Len(tryAddRefCalls[n]) =
        IF objects[n].data /\ TryGetFileOffset(objects[n].vmaddr).found
        THEN objects[n].size \div PointerSize
        ELSE 0

\* ------------------------------------------------------------------ claims on the reference graph

\* The objects a path of references leads to from the objects in S, without
\* entering the object avoid.
RECURSIVE ReachableAvoiding(_, _)
ReachableAvoiding(S, avoid) ==
  LET More == {t \in DOMAIN objects : t # avoid /\ \E f \in S : t \in objects[f].refs}
  IN IF More \subseteq S THEN S ELSE ReachableAvoiding(S \cup More, avoid)

\* The objects reachable from the entry point.
Reachable == ReachableAvoiding({entry_}, NULL)

\* d lies on every path from the entry point to the reachable object v.
Dominates(d, v) ==
  \/ d = v
  \/ d = entry_
  \/ v \notin ReachableAvoiding({entry_}, d)

\* d is the immediate dominator of v: a dominator of v other than v that
\* every other such dominator dominates.
IsImmediateDominator(d, v) ==
  /\ d # v
  /\ d \in Reachable
  /\ Dominates(d, v)
  /\ \A x \in Reachable \ {v} : Dominates(x, v) => Dominates(x, d)

\* C1: every reachable symbol v other than the root that Calculate maps to a
\* symbol is mapped to its immediate dominator.
C1_DominatorsAreImmediate ==
  weightRun = "traversed" =>
    \A v \in (Reachable \ {entry_}) \cap DOMAIN dominators :
      IsImmediateDominator(dominators[v], v)

\* C2: the keys of the dominator map are exactly the symbols reachable from
\* the entry point, without the entry point.
C2_DominatorKeys ==
  weightRun = "traversed" => DOMAIN dominators = Reachable \ {entry_}

RECURSIVE SumOver(_, _)
SumOver(S, f) ==
  IF S = {} THEN 0
  ELSE LET x == CHOOSE y \in S : TRUE IN f[x] + SumOver(S \ {x}, f)

WeightOf == [n \in DOMAIN objects |-> objects[n].weight]
SizeOf == [n \in DOMAIN objects |-> objects[n].size]

\* C3: after the transitive-weight computation every reachable symbol weighs
\* its size plus the weights of the symbols it immediately dominates, and the
\* entry point weighs the sizes of all reachable symbols together.
C3_WeightIsDominatedSize ==
  weightRun = "traversed" =>
    /\ \A s \in Reachable :
         objects[s].weight =
           objects[s].size
           + SumOver({t \in Reachable \ {entry_} : IsImmediateDominator(s, t)}, WeightOf)
    /\ objects[entry_].weight = SumOver(Reachable, SizeOf)

\* C4: after weight propagation max_weight(s) >= weight(s) >= size(s) for
\* every reachable symbol s.
C4_MaxWeightMonotone ==
  weightRun = "traversed" =>
    \A s \in Reachable :
      /\ objects[s].max_weight >= objects[s].weight
      /\ objects[s].weight >= objects[s].size

\* SetEntryPoint was never called: entry_ is what Program() left there.
EntryNeverSet == entry_ \notin DOMAIN objects

\* C8: with the entry point never set, each report that has run ended in the
\* fatal error, before any traversal.
C8_ReportsFatalWithoutEntry ==
  EntryNeverSet =>
    /\ garbageRun \in {"no", "fatal"}
    /\ weightRun \in {"no", "fatal"}

\* C9: with an entry point set, the garbage set PrintGarbage computes is
\* exactly the set of symbols not reachable from the entry point.
C9_GarbageIsUnreachable ==
  (garbageRun = "traversed" /\ ~EntryNeverSet) =>
    garbage = DOMAIN objects \ Reachable

\* C9's case: a garbage run over a graph with a cycle and a self-edge among
\* the reachable symbols, and with garbage left.
C9_Witness ==
  /\ garbageRun = "traversed"
  /\ ~EntryNeverSet
  /\ garbage # {}
  /\ \E a, b \in Reachable : a # b /\ b \in objects[a].refs /\ a \in objects[b].refs
  /\ \E a \in Reachable : a \in objects[a].refs

\* ------------------------------------------------------------------ claims on the traversals

\* The sequence names every symbol reachable from the entry point, each once,
\* and nothing else.
EachReachableOnce(visits) ==
  /\ {visits[i] : i \in DOMAIN visits} = Reachable
  /\ Len(visits) = Cardinality(Reachable)

\* C11: on every reference graph, cycles and self-edges included, the
\* reachability DFS (GC), the weight DFS (CalculateWeights) and the dominator
\* DFS (Initialize) each come to an end, and each has processed every symbol
\* reachable from the entry point exactly once.  A report is one step, which
\* exists only where its recursion returns: with an entry point set, main()
\* gets past a report only with the traversal done, and then the objects GC
\* pushed, CalculateWeights weighed and Initialize numbered are the reachable
\* symbols, none of them twice.
C11_EachDFSVisitsOnce ==
  /\ (pc \in {"report", "done"} /\ ~EntryNeverSet) => garbageRun = "traversed"
  /\ pc = "done" => weightRun = "traversed"
  /\ (garbageRun = "traversed" /\ ~EntryNeverSet) => EachReachableOnce(pushed)
  /\ weightRun = "traversed" =>
       /\ EachReachableOnce(weighed)
       /\ EachReachableOnce(numbered)

\* C11's case: all three traversals have run over a graph like A->B->C->B,
\* with a cycle away from the entry point and a self-edge.
C11_Witness ==
  /\ garbageRun = "traversed"
  /\ weightRun = "traversed"
  /\ Len(weighed) >= 3
  /\ \E b, c \in Reachable \ {entry_} :
       /\ b # c
       /\ b \in objects[entry_].refs
       /\ c \in objects[b].refs
       /\ b \in objects[c].refs
       /\ c \in objects[c].refs

====
